---- MODULE Spec2Model ----
(***************************************************************************)
(* State-machine model of the wasm futures executor thread pool            *)
(* (src/src/pool.rs): pool handle life cycle (new / max_threads / clone /  *)
(* drop), the shared run queue, the worker loop, the task drive cycle and  *)
(* the waker.  The UnparkMutex (crate::unpark_mutex) is not part of the    *)
(* sources at hand; its four operations are modelled from the design       *)
(* document (sections 3, 4.4 and 4.5).                                     *)
(*                                                                         *)
(* The web workers all run the same code on the same shared state and are  *)
(* told apart by nothing but their position, so the pool of workers is a   *)
(* bag of worker records.  The clones of a task's Waker held outside the   *)
(* pool act alike (wake_by_ref does not consume one); they are kept as one *)
(* flag per task, set by the first clone and cleared by the last drop.     *)
(***************************************************************************)
EXTENDS Integers, Sequences, FiniteSets, Bags, TLC

\* ---------------------------------------------------------------- bounds
MaxSize    == 2   \* largest worker count passed to ThreadPool::new
MaxHint    == 2   \* largest value of navigator.hardwareConcurrency
NTasks     == 2   \* number of futures the callers spawn
MaxPending == 1   \* most Pending results the futures return in a run
MaxHandles == 2   \* most pool handles held by callers at a time

Tasks   == 1 .. NTasks
NoHint  == -1

VARIABLES
    mainPc,     \* "start" | "provision" | "ok" | "err": position of the caller of new
    hint,       \* HARDWARE_CONCURRENCY while max_threads runs, NoHint otherwise
    size,       \* PoolState.size
    idx,        \* loop variable of ThreadPool::new
    cnt,        \* PoolState.cnt
    queue,      \* the mpsc channel behind PoolState.tx / PoolState.rx
    handles,    \* ThreadPool values held by callers
    workers,    \* bag of web workers: position in PoolState::work / Task::run (pc), the
                \* task at hand, Close messages still to send in a drop (fan), Close
                \* messages received (nclose)
    fanMain,    \* Close messages the calling thread still has to send in a drop
    fanEnv,     \* Close messages a thread dropping a Waker still has to send
    mutex,      \* per task: state of WakeHandle.mutex
    spawned,    \* number of tasks created by spawn_obj_ok so far
    polled,     \* per task: number of calls of future.poll_unpin that returned
    pendings,   \* number of polls that returned Poll::Pending
    completed,  \* per task: number of calls of mutex.complete()
    cloned,     \* per task: clones of its Waker are held outside the pool
    inflight,   \* per task: Task values taken by notify() and not yet sent
    closesSent  \* number of Message::Close ever sent

vars == << mainPc, hint, size, idx, cnt, queue, handles, workers, fanMain, fanEnv,
           mutex, spawned, polled, pendings, completed, cloned, inflight, closesSent >>

poolVars == << mainPc, hint, size, idx, handles >>
taskVars == << mutex, spawned, polled, pendings, completed, cloned, inflight >>
fanVars  == << fanMain, fanEnv, closesSent >>

\* ------------------------------------------------------------- messages
Run(t) == [tag |-> "Run", task |-> t]
Close  == [tag |-> "Close", task |-> 0]

Min(a, b) == IF a < b THEN a ELSE b
Max(a, b) == IF a > b THEN a ELSE b

\* -------------------------------------------------------------- workers
\* a web worker that has just entered PoolState::work
Fresh == [pc |-> "recv", task |-> 0, fan |-> 0, nclose |-> 0]

\* a web worker whose provisioning broke off after Worker::new: it never runs work
Orphan == [pc |-> "orphan", task |-> 0, fan |-> 0, nclose |-> 0]

\* the bag b after one worker went from record c to record d
Step(b, c, d) == (b (-) SetToBag({c})) (+) SetToBag({d})

\* the number of workers at one of the positions pcs with one of the tasks ts
At(pcs, ts) ==
    BagCardinality([c \in {d \in BagToSet(workers) : d.pc \in pcs /\ d.task \in ts}
                      |-> workers[c]])

\* --------------------------------------------------------- UnparkMutex
\* start_poll: legal only from Idle, moves to Polling
start_poll(s) == IF s = "Idle" THEN "Polling" ELSE "Fatal"

\* wait(task): Polling -> Parked(task), Ok(()); Repoll -> Polling, Err(task)
wait_state(s) ==
    CASE s = "Polling" -> "Parked"
      [] s = "Repoll"  -> "Polling"
      [] OTHER         -> "Fatal"

wait_result(s) ==
    CASE s = "Polling" -> "Ok"
      [] s = "Repoll"  -> "Err"
      [] OTHER         -> "Fatal"

\* complete: unconditional move to Complete
complete(s) == "Complete"

\* notify: Parked(task) -> Idle, Ok(task); Polling -> Repoll, Err; otherwise no-op, Err
notify_state(s) ==
    CASE s = "Parked"  -> "Idle"
      [] s = "Polling" -> "Repoll"
      [] OTHER         -> s

notify_result(s) == IF s = "Parked" THEN "Ok" ELSE "Err"

\* ----------------------------------------------------- owners of a task
Queued(t)   == Cardinality({i \in 1 .. Len(queue) : queue[i] = Run(t)})
InDrive     == {"start_poll", "poll", "wait", "complete"}
Driving(t)  == At(InDrive, {t})
Pollers(t)  == At({"poll"}, {t})
Leaving(t)  == At({"drop_wake"}, {t})
Stored(t)   == IF mutex[t] = "Parked" THEN 1 ELSE 0

\* the Task values of task t in existence: queued, in a drive cycle, between
\* notify and send, stored in the mutex
Holders(t)  == Queued(t) + Driving(t) + inflight[t] + Stored(t)

\* strong count of the Arc<WakeHandle> of task t: one per Task value, one per
\* local wake_handle left behind in run, the clones outside (counted as one)
ArcRefs(t)  == Holders(t) + Leaving(t) + (IF cloned[t] THEN 1 ELSE 0)

\* ---------------------------------------------------------------- locks
\* workers inside rx.lock().recv(): one of them holds the lock of rx and is
\* blocked in recv, the others wait for that lock
Blocked ==
    BagCardinality([c \in {d \in BagToSet(workers) : d.pc = "recv" /\ d.fan = 0}
                      |-> workers[c]])

\* the locks held by threads that are blocked
HeldLocks == IF Blocked > 0 THEN {"rx"} ELSE {}

\* SendLocks of a channel with one lock around both ends
SendLocksShared == {"rx"}

\* the locks PoolState::send takes: tx.lock()
SendLocks == {"tx"}

\* send can take its locks.  The lock of tx is held only for the length of an
\* mpsc send, which never blocks, so a send is one step.
CanSend == SendLocks \cap HeldLocks = {}

\* ------------------------------------------------------ Arc<PoolState>
\* threads inside the loop of sends of a drop: the ThreadPool being dropped still
\* holds its Arc<PoolState>
Droppers ==
    (IF fanMain > 0 THEN 1 ELSE 0) + (IF fanEnv > 0 THEN 1 ELSE 0)
        + BagCardinality([c \in {d \in BagToSet(workers) : d.fan > 0} |-> workers[c]])

\* web workers inside worker_entry_point, each holding the Arc<PoolState> it got
\* from its state pointer
Running == At({"recv", "start_poll", "poll", "wait", "complete", "drop_wake"}, {0} \cup Tasks)

\* lower bound of the strong count of the Arc<PoolState>: one per ThreadPool value
\* (cnt counts them), one per drop in progress, one per running worker
PoolRefs == cnt + Droppers + Running

\* tx and rx are fields of the one PoolState: the channel is connected as long as
\* the PoolState is alive
Connected == PoolRefs > 0

\* ------------------------------------------------- Drop for ThreadPool
\* cnt.fetch_sub(1): the new counter value.  The counter never wraps below 0 in
\* a reachable state (CntInRange), so the usize arithmetic is plain arithmetic.
FetchSub(c) == c - 1

\* DropCloses without the test for the last handle: every drop fans out
DropClosesEvery(c) == IF c >= 1 THEN size ELSE 0

\* DropCloses testing the counter after the decrement instead of before it
DropClosesNew(c) == IF c = 0 THEN size ELSE 0

\* the number of Close messages the drop that saw counter value c sends
DropCloses(c) == IF c = 1 THEN size ELSE 0

\* PoolState::send(Message::Close), one iteration of the loop in drop, by the
\* calling thread
SendCloseMain ==
    /\ fanMain > 0
    /\ CanSend
    /\ fanMain' = fanMain - 1
    /\ queue' = Append(queue, Close)
    /\ closesSent' = closesSent + 1
    /\ UNCHANGED << poolVars, cnt, workers, fanEnv, taskVars >>

\* the same, by a thread that dropped the last Waker
SendCloseEnv ==
    /\ fanEnv > 0
    /\ CanSend
    /\ fanEnv' = fanEnv - 1
    /\ queue' = Append(queue, Close)
    /\ closesSent' = closesSent + 1
    /\ UNCHANGED << poolVars, cnt, workers, fanMain, taskVars >>

\* the same, by a worker c at the end of run
SendCloseWorker ==
    \E c \in BagToSet(workers) :
        /\ c.fan > 0
        /\ CanSend
        /\ workers' = Step(workers, c, [c EXCEPT !.fan = @ - 1])
        /\ queue' = Append(queue, Close)
        /\ closesSent' = closesSent + 1
        /\ UNCHANGED << poolVars, cnt, fanMain, fanEnv, taskVars >>

\* ------------------------------------------------------ ThreadPool::new
\* the state right after the PoolState is built, before the first worker
NewPool(n, h) ==
    /\ mainPc = "start"
    /\ mainPc' = "provision"
    /\ hint' = h
    /\ size' = n
    /\ idx' = 0
    /\ cnt' = 1
    /\ UNCHANGED << queue, handles, workers, fanVars, taskVars >>

New(n) == NewPool(n, NoHint)

\* pool_size of max_threads for a concurrency hint h
PoolSize(h) == Min(h, 1)

MaxThreads(h) == NewPool(PoolSize(h), h)

\* one successful iteration of the loop: worker idx gets module, memory and state
Provision ==
    /\ mainPc = "provision"
    /\ idx < size
    /\ workers' = workers (+) SetToBag({Fresh})
    /\ idx' = idx + 1
    /\ UNCHANGED << mainPc, hint, size, cnt, queue, handles, fanVars, taskVars >>

\* the ? operator in the loop: Worker::new_with_options (at = "new") or one of
\* the post_message calls fails; pool is dropped on the way out
ProvisionFail(at) ==
    /\ mainPc = "provision"
    /\ idx < size
    /\ workers' = IF at = "new" THEN workers ELSE workers (+) SetToBag({Orphan})
    /\ mainPc' = "err"
    /\ hint' = NoHint
    /\ cnt' = FetchSub(cnt)
    /\ fanMain' = fanMain + DropCloses(cnt)
    /\ UNCHANGED << size, idx, queue, handles, fanEnv, closesSent, taskVars >>

\* Ok(pool)
NewReturn ==
    /\ mainPc = "provision"
    /\ idx = size
    /\ mainPc' = "ok"
    /\ hint' = NoHint
    /\ handles' = 1
    /\ UNCHANGED << size, idx, cnt, queue, workers, fanVars, taskVars >>

\* ------------------------------------------------- caller-side operations
\* CloneHandle making a pool of its own: the clone starts a worker as new does
CloneHandleNewPool ==
    /\ mainPc = "ok"
    /\ fanMain = 0
    /\ handles > 0
    /\ handles < MaxHandles
    /\ cnt' = cnt + 1
    /\ handles' = handles + 1
    /\ workers' = workers (+) SetToBag({Fresh})
    /\ UNCHANGED << mainPc, hint, size, idx, queue, fanVars, taskVars >>

\* clone: cnt.fetch_add(1) and one more handle on the same PoolState
CloneHandle ==
    /\ mainPc = "ok"
    /\ fanMain = 0
    /\ handles > 0
    /\ handles < MaxHandles
    /\ cnt' = cnt + 1
    /\ handles' = handles + 1
    /\ UNCHANGED << mainPc, hint, size, idx, queue, workers, fanVars, taskVars >>

DropHandle ==
    /\ mainPc = "ok"
    /\ fanMain = 0
    /\ handles > 0
    /\ handles' = handles - 1
    /\ cnt' = FetchSub(cnt)
    /\ fanMain' = fanMain + DropCloses(cnt)
    /\ UNCHANGED << mainPc, hint, size, idx, queue, workers, fanEnv, closesSent, taskVars >>

NextTask == spawned + 1

\* SpawnCnt without the clones: the task takes no handles of its own
SpawnCntNoClone(c) == c

\* SpawnCnt with one clone only: the task and its wake handle share a handle
SpawnCntOne(c) == c + 1

\* the counter after the two self.clone() calls of spawn_obj_ok
SpawnCnt(c) == c + 2

\* SpawnObjOk on a channel that holds one message at most: a spawn into a queue
\* that is not empty cannot go through
SpawnObjOkBounded ==
    /\ mainPc = "ok"
    /\ fanMain = 0
    /\ handles > 0
    /\ NextTask \in Tasks
    /\ CanSend
    /\ queue = << >>
    /\ spawned' = NextTask
    /\ mutex' = [mutex EXCEPT ![NextTask] = "Idle"]
    /\ cnt' = SpawnCnt(cnt)
    /\ queue' = Append(queue, Run(NextTask))
    /\ UNCHANGED << poolVars, workers, fanVars, polled, pendings, completed, cloned, inflight >>

\* spawn_obj_ok: two clones of the handle, a fresh WakeHandle, send(Run(task))
SpawnObjOk ==
    /\ mainPc = "ok"
    /\ fanMain = 0
    /\ handles > 0
    /\ NextTask \in Tasks
    /\ CanSend
    /\ spawned' = NextTask
    /\ mutex' = [mutex EXCEPT ![NextTask] = "Idle"]
    /\ cnt' = SpawnCnt(cnt)
    /\ queue' = Append(queue, Run(NextTask))
    /\ UNCHANGED << poolVars, workers, fanVars, polled, pendings, completed, cloned, inflight >>

\* ------------------------------------------------------ PoolState::work
\* WorkNext without the break: the loop goes on after a Close
WorkNextNoBreak(msg) == IF msg.tag = "Run" THEN "start_poll" ELSE "recv"

\* what the worker loop does with a received message
WorkNext(msg) == IF msg.tag = "Run" THEN "start_poll" ELSE "stopped"

\* rx.lock().recv(): a worker c in the loop takes the head of the queue
Recv ==
    \E c \in BagToSet(workers) :
        /\ c.pc = "recv"
        /\ c.fan = 0
        /\ queue # << >>
        /\ LET msg == Head(queue) IN
            workers' = Step(workers, c,
                            [c EXCEPT !.pc = WorkNext(msg), !.task = msg.task,
                                      !.nclose = @ + (IF msg.tag = "Close" THEN 1 ELSE 0)])
        /\ queue' = Tail(queue)
        /\ UNCHANGED << poolVars, cnt, fanVars, taskVars >>

\* ------------------------------------------------------------ Task::run
\* wake_handle.mutex.start_poll(), by the worker c that received the task
StartPoll ==
    \E c \in BagToSet(workers) :
        /\ c.pc = "start_poll"
        /\ LET s == start_poll(mutex[c.task]) IN
            IF s = "Fatal"
            THEN /\ workers' = Step(workers, c, [c EXCEPT !.pc = "panicked"])
                 /\ UNCHANGED mutex
            ELSE /\ workers' = Step(workers, c, [c EXCEPT !.pc = "poll"])
                 /\ mutex' = [mutex EXCEPT ![c.task] = s]
        /\ UNCHANGED << poolVars, cnt, queue, fanVars, spawned, polled, pendings, completed,
                        cloned, inflight >>

\* the match on the result of future.poll_unpin: Pending goes on to wait, Ready to complete
AfterPoll(pending) == IF pending THEN "wait" ELSE "complete"

\* future.poll_unpin(&mut cx) returns Pending or Ready(())
Poll(pending) ==
    \E c \in BagToSet(workers) :
        /\ c.pc = "poll"
        /\ pending => pendings < MaxPending
        /\ polled' = [polled EXCEPT ![c.task] = @ + 1]
        /\ pendings' = pendings + (IF pending THEN 1 ELSE 0)
        /\ workers' = Step(workers, c, [c EXCEPT !.pc = AfterPoll(pending)])
        /\ UNCHANGED << poolVars, cnt, queue, fanVars, mutex, spawned, completed, cloned, inflight >>

\* Poll::Ready(()) => return wake_handle.mutex.complete(); on the way out of run
\* the local exec is dropped
Complete ==
    \E c \in BagToSet(workers) :
        /\ c.pc = "complete"
        /\ mutex' = [mutex EXCEPT ![c.task] = complete(mutex[c.task])]
        /\ completed' = [completed EXCEPT ![c.task] = @ + 1]
        /\ cnt' = FetchSub(cnt)
        /\ workers' = Step(workers, c, [c EXCEPT !.pc = "drop_wake", !.fan = @ + DropCloses(cnt)])
        /\ UNCHANGED << poolVars, queue, fanVars, spawned, polled, pendings, cloned, inflight >>

\* AfterWait with the return of the Ok arm missing: run polls on after parking
AfterWaitNoReturn(res) ==
    CASE res = "Ok"  -> "poll"
      [] res = "Err" -> "poll"
      [] OTHER       -> "panicked"

\* AfterWait with the Err arm returning as well: the racing wake is dropped
AfterWaitLost(res) ==
    CASE res = "Ok"  -> "drop_wake"
      [] res = "Err" -> "drop_wake"
      [] OTHER       -> "panicked"

\* where run goes after wait(task): Ok(()) returns, Err(task) loops
AfterWait(res) ==
    CASE res = "Ok"  -> "drop_wake"
      [] res = "Err" -> "poll"
      [] OTHER       -> "panicked"

\* wake_handle.mutex.wait(task), task carrying a clone of wake_handle; on Err the
\* clone comes back inside the task and is dropped
Wait ==
    \E c \in BagToSet(workers) :
        /\ c.pc = "wait"
        /\ LET res == wait_result(mutex[c.task]) IN
            /\ workers' = Step(workers, c, [c EXCEPT !.pc = AfterWait(res)])
            /\ mutex' = [mutex EXCEPT ![c.task] = IF res = "Fatal" THEN @ ELSE wait_state(@)]
        /\ UNCHANGED << poolVars, cnt, queue, fanVars, spawned, polled, pendings, completed,
                        cloned, inflight >>

\* DropWake of a worker that stays with the task it parked: it leaves run only
\* once the task is no longer Parked
DropWakeHeld ==
    \E c \in BagToSet(workers) :
        /\ c.pc = "drop_wake"
        /\ c.fan = 0
        /\ mutex[c.task] # "Parked"
        /\ LET last == ArcRefs(c.task) = 1 IN
            /\ cnt' = IF last THEN FetchSub(cnt) ELSE cnt
            /\ workers' = Step(workers, c,
                               [c EXCEPT !.pc = "recv", !.task = 0,
                                         !.fan = IF last THEN DropCloses(cnt) ELSE 0])
        /\ UNCHANGED << poolVars, queue, fanVars, taskVars >>

\* end of run: the local wake_handle is dropped; the last Arc drops WakeHandle.exec
DropWake ==
    \E c \in BagToSet(workers) :
        /\ c.pc = "drop_wake"
        /\ c.fan = 0
        /\ LET last == ArcRefs(c.task) = 1 IN
            /\ cnt' = IF last THEN FetchSub(cnt) ELSE cnt
            /\ workers' = Step(workers, c,
                               [c EXCEPT !.pc = "recv", !.task = 0,
                                         !.fan = IF last THEN DropCloses(cnt) ELSE 0])
        /\ UNCHANGED << poolVars, queue, fanVars, taskVars >>

\* ---------------------------------------------------------------- wakers
\* a Waker of task t is at hand: a clone held outside, or the Context of a running poll
HasWaker(t) == cloned[t] \/ Pollers(t) > 0

\* cx.waker().clone() inside poll, the first clone to be kept outside
CloneWaker(t) ==
    /\ Pollers(t) > 0
    /\ ~cloned[t]
    /\ cloned' = [cloned EXCEPT ![t] = TRUE]
    /\ UNCHANGED << poolVars, cnt, queue, workers, fanVars, mutex, spawned, polled,
                    pendings, completed, inflight >>

\* the last clone held outside is dropped; the last Arc drops WakeHandle.exec
DropWaker(t) ==
    /\ cloned[t]
    /\ cloned' = [cloned EXCEPT ![t] = FALSE]
    /\ LET last == ArcRefs(t) = 1 IN
        /\ cnt' = IF last THEN FetchSub(cnt) ELSE cnt
        /\ fanEnv' = IF last THEN fanEnv + DropCloses(cnt) ELSE fanEnv
    /\ UNCHANGED << poolVars, queue, workers, fanMain, closesSent, mutex, spawned, polled,
                    pendings, completed, inflight >>

\* WakeSends with both arms sending
WakeSendsAlways(res) == TRUE

\* WakeSends with no arm sending: the task notify hands out is dropped
WakeSendsNever(res) == FALSE

\* the match in wake_by_ref: does the result of notify make it send Run(task)
WakeSends(res) == res = "Ok"

\* wake_by_ref up to the result of mutex.notify()
WakeByRef(t) ==
    /\ HasWaker(t)
    /\ mutex' = [mutex EXCEPT ![t] = notify_state(@)]
    /\ inflight' = [inflight EXCEPT ![t] =
                      IF WakeSends(notify_result(mutex[t])) THEN @ + 1 ELSE @]
    /\ UNCHANGED << poolVars, cnt, queue, workers, fanVars, spawned, polled, pendings,
                    completed, cloned >>

\* wake_by_ref, the Ok arm: exec.state.send(Message::Run(task))
Requeue(t) ==
    /\ inflight[t] > 0
    /\ CanSend
    /\ inflight' = [inflight EXCEPT ![t] = @ - 1]
    /\ queue' = Append(queue, Run(t))
    /\ UNCHANGED << poolVars, cnt, workers, fanVars, mutex, spawned, polled, pendings,
                    completed, cloned >>

\* --------------------------------------------------------- specification
Init ==
    /\ mainPc = "start"
    /\ hint = NoHint
    /\ size = 0
    /\ idx = 0
    /\ cnt = 0
    /\ queue = << >>
    /\ handles = 0
    /\ workers = EmptyBag
    /\ fanMain = 0
    /\ fanEnv = 0
    /\ mutex = [t \in Tasks |-> "Idle"]
    /\ spawned = 0
    /\ polled = [t \in Tasks |-> 0]
    /\ pendings = 0
    /\ completed = [t \in Tasks |-> 0]
    /\ cloned = [t \in Tasks |-> FALSE]
    /\ inflight = [t \in Tasks |-> 0]
    /\ closesSent = 0

Next ==
    \/ \E n \in 0 .. MaxSize : New(n)
    \/ \E h \in 0 .. MaxHint : MaxThreads(h)
    \/ Provision
    \/ \E at \in {"new", "post_module", "post_state"} : ProvisionFail(at)
    \/ NewReturn
    \/ CloneHandle
    \/ DropHandle
    \/ SpawnObjOk
    \/ SendCloseMain
    \/ SendCloseEnv
    \/ Recv
    \/ StartPoll
    \/ \E pending \in BOOLEAN : Poll(pending)
    \/ Complete
    \/ Wait
    \/ DropWake
    \/ SendCloseWorker
    \/ \E t \in Tasks : CloneWaker(t)
    \/ \E t \in Tasks : DropWaker(t)
    \/ \E t \in Tasks : WakeByRef(t)
    \/ \E t \in Tasks : Requeue(t)

Spec == Init /\ [][Next]_vars

\* One step of ThreadPool::new on the calling thread.
NewStep == Provision \/ NewReturn \/ \E at \in {"new", "post_module", "post_state"} : ProvisionFail(at)

\* One step of some web worker.
PoolStep ==
    \/ Recv
    \/ StartPoll
    \/ \E pending \in BOOLEAN : Poll(pending)
    \/ Complete
    \/ Wait
    \/ DropWake
    \/ SendCloseWorker

\* One send of a thread that is past notify() in wake_by_ref.
RequeueStep == \E t \in Tasks : Requeue(t)

\* Code that is running keeps running: a call of new goes on to its end, a drop
\* that has started its loop of sends finishes it, a worker that can step steps,
\* a wake_by_ref that has taken the task sends it.  Callers need not call
\* anything and wakers need not ever be used.
FairSpec ==
    /\ Spec
    /\ WF_vars(NewStep)
    /\ WF_vars(SendCloseMain)
    /\ WF_vars(SendCloseEnv)
    /\ WF_vars(PoolStep)
    /\ WF_vars(RequeueStep)

\* ------------------------------------------------------ scripted futures
\* The futures of the poll-count scenario: task 1 returns Pending on its first
\* MaxPending polls and Ready on the next, every other task returns Ready on its
\* first poll.
Script(t) == IF t = 1 THEN MaxPending ELSE 0

\* the poll of task t that is running, or the one that has just returned, is one
\* that returns Pending and has not had its wake yet
WakeDue(t) ==
    \/ mutex[t] = "Parked"
    \/ /\ mutex[t] = "Polling"
       /\ \/ At({"wait"}, {t}) = 1
          \/ Pollers(t) = 1 /\ polled[t] < Script(t)

\* poll_unpin of a scripted future: the result is the one the script gives for
\* this poll, and Pending is returned only once the wake is arranged for (the
\* waker is cloned, or the wake has come in during the poll)
ScriptedPoll ==
    \E pending \in BOOLEAN :
        /\ Poll(pending)
        /\ \A t \in Tasks :
              polled'[t] # polled[t] =>
                  /\ pending <=> polled[t] < Script(t)
                  /\ pending => (cloned[t] \/ mutex[t] = "Repoll")

\* the one wake of a Pending poll, during the poll or after it
ScriptedWake(t) == WakeDue(t) /\ WakeByRef(t)

\* a clone of the Waker is dropped once no wake is due from it
ScriptedDropWaker(t) == ~WakeDue(t) /\ DropWaker(t)

ScriptedNext ==
    \/ \E n \in 0 .. MaxSize : New(n)
    \/ \E h \in 0 .. MaxHint : MaxThreads(h)
    \/ Provision
    \/ \E at \in {"new", "post_module", "post_state"} : ProvisionFail(at)
    \/ NewReturn
    \/ CloneHandle
    \/ DropHandle
    \/ SpawnObjOk
    \/ SendCloseMain
    \/ SendCloseEnv
    \/ Recv
    \/ StartPoll
    \/ ScriptedPoll
    \/ Complete
    \/ Wait
    \/ DropWake
    \/ SendCloseWorker
    \/ \E t \in Tasks : CloneWaker(t)
    \/ \E t \in Tasks : ScriptedDropWaker(t)
    \/ \E t \in Tasks : ScriptedWake(t)
    \/ \E t \in Tasks : Requeue(t)

\* One step of some web worker polling scripted futures.
ScriptedPoolStep ==
    \/ Recv
    \/ StartPoll
    \/ ScriptedPoll
    \/ Complete
    \/ Wait
    \/ DropWake
    \/ SendCloseWorker

\* The wake of a Pending poll does come.
ScriptedWakeStep == \E t \in Tasks : ScriptedWake(t)

\* The pool under fair scheduling, driven by the scripted futures and their wakes.
ScriptedSpec ==
    /\ Init
    /\ [][ScriptedNext]_vars
    /\ WF_vars(NewStep)
    /\ WF_vars(SendCloseMain)
    /\ WF_vars(SendCloseEnv)
    /\ WF_vars(ScriptedPoolStep)
    /\ WF_vars(RequeueStep)
    /\ WF_vars(ScriptedWakeStep)

\* ------------------------------------------------------------ properties
Spawned(t) == t <= spawned
Live(t)    == Spawned(t) /\ mutex[t] # "Complete"
Idle       == At({"recv"}, {0})

\* C1: at most one worker is inside poll_unpin of a task at any instant, and
\* while the state machine is Polling or Repoll no wake has taken the task out
\* (none is in flight to the queue, none queued, none at a second worker).
C1_MutualExclusion ==
    \A t \in Tasks :
        /\ Pollers(t) <= 1
        /\ mutex[t] \in {"Polling", "Repoll"} =>
              /\ inflight[t] = 0
              /\ Queued(t) = 0
              /\ Driving(t) = 1

\* a wake has reached a task in the middle of a poll while another worker is idle
C1_Witness ==
    \E t \in Tasks :
        /\ Pollers(t) = 1
        /\ mutex[t] = "Repoll"
        /\ Idle > 0

AtWait(t) == At({"wait"}, {t})

\* C2: under fair scheduling no notify is lost.  A notify that finds the task
\* Parked leaves the state Idle with the task on its way to the queue, and a
\* worker then starts another poll of it.  A notify that finds it Polling leaves
\* the state Repoll, and the worker at hand then starts another poll (wait()
\* puts the state back to Polling) unless the poll in progress returns Ready and
\* the task completes.
C2_NoLostWakeup ==
    \A t \in Tasks :
        /\ (mutex[t] = "Idle" /\ polled[t] >= 1) ~> (Pollers(t) = 1)
        /\ (mutex[t] = "Repoll")
              ~> (mutex[t] = "Complete" \/ (mutex[t] = "Polling" /\ Pollers(t) = 1))

\* a wake has arrived after poll returned Pending and before wait() has parked
C2_Witness == \E t \in Tasks : mutex[t] = "Repoll" /\ AtWait(t) = 1

\* C3: once complete() has run the state stays Complete, and no later step
\* (a wake in particular) queues a Run for the task or polls it again.
C3_NoResurrection ==
    [][\A t \in Tasks :
          mutex[t] = "Complete" =>
              /\ mutex'[t] = "Complete"
              /\ polled'[t] = polled[t]
              /\ Pollers(t)' = 0
              /\ inflight'[t] = 0
              /\ Queued(t)' = 0]_vars

\* a completed task with a waker still held outside, and a worker there to run it
C3_Witness ==
    \E t \in Tasks :
        /\ cloned[t]
        /\ mutex[t] = "Complete"
        /\ Idle > 0

\* C4: no task completes twice, and in a pool with at least one worker every
\* spawned task completes under fair scheduling unless it stays parked for ever
\* (its future returned Pending and nobody wakes it).
C4_ExactlyOnce ==
    \A t \in Tasks :
        /\ [](completed[t] <= 1)
        /\ []((Spawned(t) /\ size >= 1)
                 => (<>(completed[t] = 1) \/ <>[](mutex[t] = "Parked")))

\* every task has completed, one of them after a Pending and a wake
C4_Witness ==
    /\ \A t \in Tasks : completed[t] = 1
    /\ \E t \in Tasks : polled[t] >= 2

\* C5: every live task has exactly one holder: the queue (once), one worker in
\* a drive cycle, a thread between notify and send, or its own state machine.
C5_ExclusiveOwnership ==
    \A t \in Tasks : Live(t) => Holders(t) = 1

\* a task is in the hands of a waking thread, between notify and send
C5_Witness ==
    \E t \in Tasks : Live(t) /\ inflight[t] = 1 /\ mutex[t] = "Idle"

RECURSIVE SumFan(_)
SumFan(S) ==
    IF S = {} THEN 0
    ELSE LET c == CHOOSE x \in S : TRUE
         IN  c.fan * CopiesIn(c, workers) + SumFan(S \ {c})

\* Close messages sent so far or due from a drop that is in its loop of sends
ClosesDue == closesSent + fanMain + fanEnv + SumFan(BagToSet(workers))

Stopped     == At({"stopped"}, {0})
AnyStopped  == Stopped > 0

\* every worker that entered the worker loop has left it on its one Close
AllStopped ==
    /\ \A c \in BagToSet(workers) : c.pc \in {"stopped", "orphan"}
    /\ \A c \in BagToSet(workers) : c.pc = "stopped" => c.nclose = 1
    /\ Stopped = idx

\* C6: the number of Close messages sent or due changes only in the drop that
\* takes the counter from 1 to 0, which makes it worker_count; the counter then
\* stays 0, so this happens once; when no drop is in its loop of sends the
\* number of Close messages sent is 0 or worker_count.
C6_CloseFanOutOnce ==
    /\ []((ClosesDue = closesSent) => closesSent \in {0, size})
    /\ [][(ClosesDue' # ClosesDue) =>
              (cnt = 1 /\ cnt' = 0 /\ ClosesDue = 0 /\ ClosesDue' = size)]_vars
    /\ [][(mainPc # "start" /\ cnt = 0) => (cnt' = 0)]_vars

\* a pool of two workers has sent its Close messages after clones, drops and a
\* task that ran to completion
C6_Witness ==
    /\ mainPc = "ok"
    /\ size >= 2
    /\ closesSent = size
    /\ \E t \in Tasks : completed[t] = 1

\* C7: no worker receives two Close messages, and once the counter is zero
\* every worker that entered the worker loop receives one Close and stops.
C7_OrderlyShutdown ==
    /\ [](\A c \in BagToSet(workers) : c.nclose <= 1)
    /\ (mainPc # "start" /\ cnt = 0) ~> AllStopped

\* both workers of a pool that ran tasks have stopped
C7_Witness ==
    /\ mainPc = "ok"
    /\ size >= 2
    /\ spawned >= 1
    /\ cnt = 0
    /\ AllStopped

\* C8: once the callers hold no handle (no spawn can follow), every queued Run
\* message is dequeued and its task polled in a pool that has a worker; and
\* whenever a worker has stopped, no Run message is in the queue and every
\* task spawned has been polled.
C8_ShutdownKeepsQueuedWork ==
    /\ [](AnyStopped =>
            \A t \in Tasks : Spawned(t) => (Queued(t) = 0 /\ polled[t] >= 1))
    /\ \A t \in Tasks :
          (mainPc = "ok" /\ handles = 0 /\ size >= 1 /\ Queued(t) = 1) ~> (Pollers(t) = 1)

\* the last handle is released while the Run messages of all tasks are queued
C8_Witness ==
    /\ mainPc = "ok"
    /\ size >= 1
    /\ handles = 0
    /\ \A t \in Tasks : Queued(t) = 1 /\ polled[t] = 0

C10_DefaultSizeClamp ==
    (mainPc = "provision" /\ hint # NoHint) => size = Max(hint, 1)

\* C11: a caller that holds a handle and is not inside another call can always
\* spawn (spawn_obj_ok has no failing path, whatever the queue, the workers and
\* the other tasks are doing), and a spawn appends exactly one Run message, for
\* a task that has never been polled and whose state machine is Idle, and
\* leaves the state machines of the other tasks alone.
C11_SpawnAlwaysSucceeds ==
    /\ []((mainPc = "ok" /\ handles > 0 /\ fanMain = 0 /\ spawned < NTasks)
            => ENABLED SpawnObjOk)
    /\ [][spawned' # spawned =>
              /\ spawned' = spawned + 1
              /\ queue' = Append(queue, Run(spawned'))
              /\ mutex'[spawned'] = "Idle"
              /\ polled'[spawned'] = 0
              /\ completed'[spawned'] = 0
              /\ \E t \in Tasks : t = spawned' /\ Holders(t)' = 1
              /\ \A u \in Tasks \ {spawned'} : mutex'[u] = mutex[u]]_vars

\* a task has been spawned into a queue that still held the Run message of an
\* earlier one, and another has been spawned while an earlier one was parked
C11_Witness ==
    /\ handles > 0
    /\ spawned = 2
    /\ Queued(2) = 1
    /\ polled[2] = 0
    /\ (Queued(1) = 1 \/ mutex[1] = "Parked")

\* C12: a clone of a handle adds exactly 1 to the live-handle counter and one
\* handle on the same pool, and leaves the worker count, the workers, the run
\* queue, the Close messages sent or due and every task as they were.
C12_CloneIsReference ==
    [][(mainPc = "ok" /\ handles' > handles) =>
          /\ handles' = handles + 1
          /\ cnt' = cnt + 1
          /\ size' = size
          /\ idx' = idx
          /\ workers' = workers
          /\ queue' = queue
          /\ mutex' = mutex
          /\ ClosesDue' = ClosesDue
          /\ UNCHANGED taskVars]_vars

\* a second handle exists on a pool with a parked task and a queued message
C12_Witness ==
    /\ handles >= 2
    /\ cnt >= handles + 2
    /\ queue # << >>
    /\ \E t \in Tasks : mutex[t] = "Parked"

\* C13: with scripted futures and one wake per Pending poll, on a pool with any
\* number of workers (one at least) and in every interleaving, a task is never
\* polled more often than its number of Pending results plus one, and every
\* spawned task completes having been polled exactly that often: task 1
\* MaxPending + 1 times, a task that is Ready at once exactly once.
C13_PollCount ==
    \A t \in Tasks :
        /\ [](polled[t] + Pollers(t) <= Script(t) + 1)
        /\ [](completed[t] = 1 => polled[t] = Script(t) + 1)
        /\ (Spawned(t) /\ size >= 1) ~> (completed[t] = 1 /\ polled[t] = Script(t) + 1)

\* on two workers the task with Pending results and a task that is Ready at once
\* have both completed
C13_Witness ==
    /\ size >= 2
    /\ completed[1] = 1
    /\ polled[1] = MaxPending + 1
    /\ completed[2] = 1
    /\ polled[2] = 1

\* C14: the step in which a worker leaves wait(task) parks the task if the state
\* was Polling (the state becomes Parked, the worker is on its way out of run
\* and not polling) and polls it again in place if the state was Repoll (the
\* state becomes Polling, the same worker is back in poll), and neither queues
\* a message or hands a Task value to a sender; a worker on its way out of run
\* goes back to the queue without another poll; and a Run message of a task is
\* queued only by its spawn or by a wake that took it out of Parked.
C14_WaitParksOrRepolls ==
    /\ [][\A t \in Tasks :
            (AtWait(t) = 1 /\ AtWait(t)' = 0) =>
                /\ queue' = queue
                /\ inflight' = inflight
                /\ polled' = polled
                /\ \/ /\ mutex[t] = "Polling"
                      /\ mutex'[t] = "Parked"
                      /\ Pollers(t)' = 0
                      /\ Leaving(t)' = Leaving(t) + 1
                   \/ /\ mutex[t] = "Repoll"
                      /\ mutex'[t] = "Polling"
                      /\ Pollers(t)' = 1
                      /\ Leaving(t)' = Leaving(t)
                      /\ Queued(t) = 0]_vars
    /\ [][\A t \in Tasks :
            Leaving(t)' < Leaving(t) =>
                /\ Idle' = Idle + 1
                /\ polled' = polled
                /\ mutex' = mutex
                /\ queue' = queue]_vars
    /\ [][\A t \in Tasks :
            /\ Queued(t)' > Queued(t) =>
                  \/ spawned' = t /\ spawned = t - 1
                  \/ inflight[t] = 1 /\ inflight'[t] = 0
            /\ inflight'[t] > inflight[t] =>
                  mutex[t] = "Parked" /\ mutex'[t] = "Idle"]_vars

\* a worker has parked a task and is on its way back to the queue, where the
\* Run message of another task waits
C14_Witness ==
    \E t, u \in Tasks :
        /\ mutex[t] = "Parked"
        /\ Leaving(t) = 1
        /\ Queued(u) = 1

\* C15: a wake_by_ref whose notify finds the state Idle, Repoll or Complete
\* changes nothing: the state machines, the queue, the Task values on their way
\* to it, the live-handle counter and the Close accounting stay as they are; so
\* a task never has more than one Run message queued or being sent.
C15_NotifyNoOp ==
    /\ [][\A t \in Tasks :
            (WakeByRef(t) /\ mutex[t] \in {"Idle", "Repoll", "Complete"}) =>
                /\ mutex' = mutex
                /\ queue' = queue
                /\ inflight' = inflight
                /\ cnt' = cnt
                /\ ClosesDue' = ClosesDue]_vars
    /\ [](\A t \in Tasks : Queued(t) + inflight[t] <= 1)

\* a woken task is back in the queue, not yet taken, and its waker is still held
\* outside: a second wake can come
C15_Witness ==
    \E t \in Tasks :
        /\ cloned[t]
        /\ mutex[t] = "Idle"
        /\ polled[t] >= 1
        /\ Queued(t) = 1

C17_ParkingFreesWorker ==
    /\ [](\A t \in Tasks : mutex[t] = "Parked" => Driving(t) = 0)
    /\ \A t, u \in Tasks :
          (mainPc = "ok" /\ size >= 1 /\ t # u /\ mutex[t] = "Parked" /\ Queued(u) = 1)
              ~> (Pollers(u) = 1)

\* the single worker of a pool polls a task while another task is parked
C17_Witness ==
    \E t, u \in Tasks :
        /\ size = 1
        /\ mutex[t] = "Parked"
        /\ Pollers(u) = 1

RECURSIVE TaskHandles(_)
\* the pool handles held by the tasks in S: one in each Task value, one in each
\* WakeHandle that is still alive
TaskHandles(S) ==
    IF S = {} THEN 0
    ELSE LET t == CHOOSE x \in S : TRUE
         IN  Holders(t) + (IF ArcRefs(t) > 0 THEN 1 ELSE 0) + TaskHandles(S \ {t})

\* C18: the live-handle counter is the number of handles of the callers (the
\* pool under construction included) plus two for every task that exists, one
\* for its Task value and one for its wake handle; so while a task is queued,
\* on its way to the queue, in a drive cycle or parked, the counter is at least
\* 2 whatever the callers have dropped, no Close has been sent or is due, and
\* no worker has received one.  A task that stays parked keeps it so.
C18_TasksKeepPoolAlive ==
    /\ mainPc \in {"provision", "ok"} =>
          cnt = (IF mainPc = "provision" THEN 1 ELSE 0) + handles + TaskHandles(Tasks)
    /\ \A t \in Tasks :
          Holders(t) >= 1 =>
              /\ cnt >= handles + 2
              /\ ClosesDue = 0
              /\ \A c \in BagToSet(workers) : c.nclose = 0 /\ c.pc # "stopped"

\* the callers have dropped every handle and every waker; a task is parked for
\* good, the workers wait at the empty queue with no Close to come
C18_Witness ==
    \E t \in Tasks :
        /\ mainPc = "ok"
        /\ size >= 1
        /\ handles = 0
        /\ mutex[t] = "Parked"
        /\ ~cloned[t]
        /\ queue = << >>
        /\ Idle = size
        /\ cnt = 2

\* the positions of the queue holding a message with tag g
QueueAt(g) == {i \in 1 .. Len(queue) : queue[i].tag = g}

\* C19: once a Close has been sent, or is due from a drop that has begun, no
\* task is spawned and no Run message is queued or taken by a waking thread for
\* sending; so no Close is ever in front of a Run in the queue, and when a
\* worker has stopped no Run message is queued.
C19_NoRunAfterClose ==
    /\ [][ClosesDue > 0 =>
              /\ spawned' = spawned
              /\ \A t \in Tasks : Queued(t)' <= Queued(t) /\ inflight'[t] <= inflight[t]]_vars
    /\ [](\A i \in QueueAt("Close") : \A j \in QueueAt("Run") : j < i)
    /\ [](AnyStopped => QueueAt("Run") = {})

\* two tasks have run, the last handle is gone, one worker has stopped on its
\* Close and the Close of the other is still queued
C19_Witness ==
    /\ mainPc = "ok"
    /\ size >= 2
    /\ spawned = NTasks
    /\ closesSent = size
    /\ AnyStopped
    /\ QueueAt("Close") # {}

\* a send is in progress on some worker thread
WorkerSends == SumFan(BagToSet(workers)) > 0

\* C20: senders and receivers never wait for each other's lock.  A send can
\* always take the locks it needs, workers blocked in recv or not, so every
\* send that is due is enabled: a Close of a drop by the calling thread, by a
\* thread dropping a waker or by a worker at the end of run, and the Run of a
\* wake; under fair scheduling each of them is made.  And when the queue is
\* not empty and a worker is in recv, a message is taken from the head of the
\* queue: a state follows in which the queue is empty or no worker is in recv.
C20_NoProducerConsumerDeadlock ==
    /\ []CanSend
    /\ [](fanMain > 0 => ENABLED SendCloseMain)
    /\ [](fanEnv > 0 => ENABLED SendCloseEnv)
    /\ [](WorkerSends => ENABLED SendCloseWorker)
    /\ [](\A t \in Tasks : inflight[t] > 0 => ENABLED Requeue(t))
    /\ []((queue # << >> /\ Blocked > 0) => ENABLED Recv)
    /\ (fanMain > 0) ~> (fanMain = 0)
    /\ (fanEnv > 0) ~> (fanEnv = 0)
    /\ WorkerSends ~> ~WorkerSends
    /\ \A t \in Tasks : (inflight[t] > 0) ~> (inflight[t] = 0)
    /\ (queue # << >> /\ Blocked > 0) ~> (queue = << >> \/ Blocked = 0)

\* a worker that dropped the last handle at the end of run is sending the Close
\* messages while another worker is blocked in recv
C20_Witness ==
    /\ WorkerSends
    /\ Blocked > 0
    /\ closesSent < size

\* the live-handle counter stays far inside the range of usize
CntInRange == cnt \in 0 .. (MaxHandles + 2 * NTasks)

TypeOK ==
    /\ mainPc \in {"start", "provision", "ok", "err"}
    /\ CntInRange
    /\ \A t \in Tasks : mutex[t] \in {"Idle", "Polling", "Repoll", "Parked", "Complete"}
    /\ \A c \in BagToSet(workers) : c.pc # "panicked"
====
